---- MODULE Spec2Model ----
\* jogdb: the in-memory document store (MemDataStore) and the checked
\* operations that gate it, as a state machine.
\*
\* Go maps are functions whose DOMAIN is the set of keys present; a lookup
\* of a missing key yields the zero value of the element type.  A []byte
\* is a record that keeps nil-ness apart from its bytes: Go's nil slice
\* and the empty non-nil slice both have length 0 but differ under == nil.
EXTENDS Integers, Sequences, FiniteSets, TLC

\* ------------------------------------------------------------------------
\* Bounds of the model and the input alphabets.

\* Engine calls made in one behaviour of Spec.
MaxCalls == 2

\* Checked calls made in one behaviour of SpecGate.
MaxGateCalls == 3

\* Calls, engine or checked, made in one behaviour of SpecAll.
MaxAllCalls == 2

\* Calls and caller writes made in one behaviour of SpecHeap.
MaxHeapCalls == 4

\* Calls started, by all threads together, in one behaviour of SpecConc.
MaxConcCalls == 3

\* Calls started, by all threads together, in one behaviour of SpecConcFair.
MaxFairCalls == 2

Tokens == {"R", "T"}

Namespaces == {"ns1", "ns2"}

Docs == {"doc1", "doc2"}

\* The (namespace, document) pairs the calls name: two documents of one
\* namespace and one document of another.
Keys == {<<"ns1", "doc1">>, <<"ns1", "doc2">>, <<"ns2", "doc1">>}

\* ------------------------------------------------------------------------
\* Byte slices.

NilSlice == [isNil |-> TRUE, bytes |-> <<>>]

MkSlice(s) == [isNil |-> FALSE, bytes |-> s]

\* The values handed to Put and Append, and the delimiters handed to Append:
\* nil, empty, and one byte.
Values == {NilSlice, MkSlice(<<>>), MkSlice(<<"a">>)}

Delims == {NilSlice, MkSlice(<<>>), MkSlice(<<"|">>)}

\* Go's built-in append(s, x...): appending nothing to a nil slice leaves it
\* nil; every other case yields a non-nil slice holding the concatenation.
GoAppend(s, x) ==
    IF s.isNil /\ Len(x.bytes) = 0 THEN NilSlice
    ELSE MkSlice(s.bytes \o x.bytes)

\* ------------------------------------------------------------------------
\* Go maps.

EmptyMap == [k \in {} |-> FALSE]

MapPut(m, k, v) == [x \in (DOMAIN m) \cup {k} |-> IF x = k THEN v ELSE m[x]]

MapDelete(m, k) == [x \in (DOMAIN m) \ {k} |-> m[x]]

\* m[k] on a map: the stored value, or the element type's zero value.
MapGet(m, k, zero) == IF k \in DOMAIN m THEN m[k] ELSE zero

\* ------------------------------------------------------------------------
\* uint8 arithmetic of the permission bits.

Uint8Bits == 8

permGet == 1

permPut == 2

permAppend == 4

RECURSIVE BitAndN(_, _, _)
BitAndN(x, y, n) ==
    IF n = 0 THEN 0
    ELSE (x % 2) * (y % 2) + 2 * BitAndN(x \div 2, y \div 2, n - 1)

RECURSIVE BitOrN(_, _, _)
BitOrN(x, y, n) ==
    IF n = 0 THEN 0
    ELSE (IF (x % 2) + (y % 2) > 0 THEN 1 ELSE 0) + 2 * BitOrN(x \div 2, y \div 2, n - 1)

RECURSIVE Pow2(_)
Pow2(n) == IF n = 0 THEN 1 ELSE 2 * Pow2(n - 1)

\* x & y, x | y and ^x on uint8.
BitAnd(x, y) == BitAndN(x, y, Uint8Bits)

BitOr(x, y) == BitOrN(x, y, Uint8Bits)

BitNot(x) == (Pow2(Uint8Bits) - 1) - x

\* ------------------------------------------------------------------------
\* Errors.

NoErr == "nil"

ErrAccessDenied == "Access denied!"

\* ------------------------------------------------------------------------
\* State.

VARIABLES
    ds,         \* the MemDataStore: storage, perms, nsAdmins, admins, rootToken
    last,       \* the last call: operation, arguments, engine calls made, results
    granted,    \* history: triples whose latest SetToken carried a true flag
    written,    \* history: keys on which a Put or an Append has completed
    budget,     \* number of calls this behaviour may still make
    heap,       \* the backing arrays that byte slices point into
    bufs,       \* the slices callers hold: passed to Put, or returned by Get
    mutex,      \* ds.mutex: TRUE while locked
    th,         \* per thread: the call it is in, the method and the line it is at
    lin         \* history: the store as the unlocks so far would leave it, in order

vars == <<ds, last, granted, written, budget, heap, bufs, mutex, th, lin>>

\* NewMemDataStore leaving the rootToken field at its zero value.
NewMemDataStoreRootUnset(root) ==
    [storage |-> EmptyMap, perms |-> EmptyMap, nsAdmins |-> EmptyMap,
     admins |-> EmptyMap, rootToken |-> ""]

\* NewMemDataStore(rootToken): empty tables, the root token fixed.
NewMemDataStore(root) ==
    [storage |-> EmptyMap, perms |-> EmptyMap, nsAdmins |-> EmptyMap,
     admins |-> EmptyMap, rootToken |-> root]

\* ------------------------------------------------------------------------
\* MemDataStore: the queries. Each returns (bool, error); the error is nil on
\* every path.

\* IsRoot answering from the admin set instead of comparing with rootToken.
IsRootByAdmins(d, token) ==
    LET is == MapGet(d.admins, token, FALSE)
    IN  [ok |-> is, err |-> NoErr]

IsRoot(d, token) ==
    LET is == d.rootToken = token
    IN  [ok |-> is, err |-> NoErr]

IsAdmin(d, token) ==
    LET exists == MapGet(d.admins, token, FALSE)
    IN  IF exists THEN [ok |-> TRUE, err |-> NoErr]
        ELSE [ok |-> FALSE, err |-> NoErr]

IsNamespaceAdmin(d, token, ns) ==
    IF ns \notin DOMAIN d.nsAdmins THEN [ok |-> FALSE, err |-> NoErr]
    ELSE LET exists == MapGet(d.nsAdmins[ns], token, FALSE)
         IN  IF exists THEN [ok |-> TRUE, err |-> NoErr]
             ELSE [ok |-> FALSE, err |-> NoErr]

\* CanGet answering from the token's records on any document of the namespace.
CanGetAnyDoc(d, token, ns, doc) ==
    IF ns \notin DOMAIN d.perms THEN [ok |-> FALSE, err |-> NoErr]
    ELSE IF \E x \in DOMAIN d.perms[ns] :
                BitAnd(MapGet(d.perms[ns][x], token, 0), permGet) = permGet
         THEN [ok |-> TRUE, err |-> NoErr]
         ELSE [ok |-> FALSE, err |-> NoErr]

CanGet(d, token, ns, doc) ==
    IF ns \notin DOMAIN d.perms THEN [ok |-> FALSE, err |-> NoErr]
    ELSE IF doc \notin DOMAIN d.perms[ns] THEN [ok |-> FALSE, err |-> NoErr]
    ELSE LET tokenPerms == MapGet(d.perms[ns][doc], token, 0)
         IN  IF BitAnd(tokenPerms, permGet) = permGet
             THEN [ok |-> TRUE, err |-> NoErr]
             ELSE [ok |-> FALSE, err |-> NoErr]

CanPut(d, token, ns, doc) ==
    IF ns \notin DOMAIN d.perms THEN [ok |-> FALSE, err |-> NoErr]
    ELSE IF doc \notin DOMAIN d.perms[ns] THEN [ok |-> FALSE, err |-> NoErr]
    ELSE LET tokenPerms == MapGet(d.perms[ns][doc], token, 0)
         IN  IF BitAnd(tokenPerms, permPut) = permPut
             THEN [ok |-> TRUE, err |-> NoErr]
             ELSE [ok |-> FALSE, err |-> NoErr]

CanAppend(d, token, ns, doc) ==
    IF ns \notin DOMAIN d.perms THEN [ok |-> FALSE, err |-> NoErr]
    ELSE IF doc \notin DOMAIN d.perms[ns] THEN [ok |-> FALSE, err |-> NoErr]
    ELSE LET tokenPerms == MapGet(d.perms[ns][doc], token, 0)
         IN  IF BitAnd(tokenPerms, permAppend) = permAppend
             THEN [ok |-> TRUE, err |-> NoErr]
             ELSE [ok |-> FALSE, err |-> NoErr]

\* Get returns ([]byte, error): nil for an unknown namespace, and nil when the
\* document's slice is nil (a missing key reads as the nil slice).
Get(d, ns, doc) ==
    IF ns \notin DOMAIN d.storage THEN [bytes |-> NilSlice, err |-> NoErr]
    ELSE LET docV == MapGet(d.storage[ns], doc, NilSlice)
         IN  IF docV.isNil THEN [bytes |-> NilSlice, err |-> NoErr]
             ELSE [bytes |-> docV, err |-> NoErr]

\* ------------------------------------------------------------------------
\* MemDataStore: the mutations. Each returns the store it leaves and its error.

SetNamespaceAdmin(d, token, ns, is) ==
    IF ns \notin DOMAIN d.nsAdmins /\ ~is THEN [ds |-> d, err |-> NoErr]
    ELSE LET nsV == MapGet(d.nsAdmins, ns, EmptyMap)
             newV == IF is THEN MapPut(nsV, token, TRUE) ELSE MapDelete(nsV, token)
         IN  [ds |-> [d EXCEPT !.nsAdmins = MapPut(d.nsAdmins, ns, newV)], err |-> NoErr]

\* SetAdmin that, on removal, also removes the token's namespace-admin entries.
SetAdminCascading(d, token, is) ==
    LET newV == IF is THEN MapPut(d.admins, token, TRUE) ELSE MapDelete(d.admins, token)
        newNs == IF is THEN d.nsAdmins
                 ELSE [ns \in DOMAIN d.nsAdmins |-> MapDelete(d.nsAdmins[ns], token)]
    IN  [ds |-> [d EXCEPT !.admins = newV, !.nsAdmins = newNs], err |-> NoErr]

\* SetAdmin storing the flag under the token instead of deleting on false.
SetAdminStoringFlag(d, token, is) ==
    [ds |-> [d EXCEPT !.admins = MapPut(d.admins, token, is)], err |-> NoErr]

SetAdmin(d, token, is) ==
    LET newV == IF is THEN MapPut(d.admins, token, TRUE) ELSE MapDelete(d.admins, token)
    IN  [ds |-> [d EXCEPT !.admins = newV], err |-> NoErr]

\* SetBits setting the granted bits and clearing none.
SetBitsOrOnly(curPerms, get, put, app) ==
    LET g == IF get THEN BitOr(curPerms, permGet) ELSE curPerms
        p == IF put THEN BitOr(g, permPut) ELSE g
        a == IF app THEN BitOr(p, permAppend) ELSE p
    IN  a

\* The three if/else pairs of SetToken on curPerms.
SetBits(curPerms, get, put, app) ==
    LET g == IF get THEN BitOr(curPerms, permGet) ELSE BitAnd(curPerms, BitNot(permGet))
        p == IF put THEN BitOr(g, permPut) ELSE BitAnd(g, BitNot(permPut))
        a == IF app THEN BitOr(p, permAppend) ELSE BitAnd(p, BitNot(permAppend))
    IN  a

\* SetToken storing the all-false record instead of deleting it.
SetTokenNoDelete(d, token, ns, doc, get, put, app) ==
    LET nsV == MapGet(d.perms, ns, EmptyMap)
        docV == MapGet(nsV, doc, EmptyMap)
        newDocV == MapPut(docV, token, SetBits(MapGet(docV, token, 0), get, put, app))
    IN  [ds |-> [d EXCEPT !.perms = MapPut(d.perms, ns, MapPut(nsV, doc, newDocV))],
         err |-> NoErr]

SetToken(d, token, ns, doc, get, put, app) ==
    LET nsV == MapGet(d.perms, ns, EmptyMap)
        docV == MapGet(nsV, doc, EmptyMap)
        newDocV == IF get = FALSE /\ put = FALSE /\ app = FALSE
                   THEN MapDelete(docV, token)
                   ELSE MapPut(docV, token, SetBits(MapGet(docV, token, 0), get, put, app))
    IN  [ds |-> [d EXCEPT !.perms = MapPut(d.perms, ns, MapPut(nsV, doc, newDocV))],
         err |-> NoErr]

\* Append leaving the delimiter out in front of the first value.
AppendDocJoining(d, ns, doc, delim, v) ==
    LET nsV == MapGet(d.storage, ns, EmptyMap)
        old == MapGet(nsV, doc, NilSlice)
        withDelim == IF Len(old.bytes) = 0 THEN old ELSE GoAppend(old, delim)
        withValue == GoAppend(withDelim, v)
    IN  [ds |-> [d EXCEPT !.storage = MapPut(d.storage, ns, MapPut(nsV, doc, withValue))],
         err |-> NoErr]

AppendDoc(d, ns, doc, delim, v) ==
    LET nsV == MapGet(d.storage, ns, EmptyMap)
        withDelim == GoAppend(MapGet(nsV, doc, NilSlice), delim)
        withValue == GoAppend(withDelim, v)
    IN  [ds |-> [d EXCEPT !.storage = MapPut(d.storage, ns, MapPut(nsV, doc, withValue))],
         err |-> NoErr]

\* Put appending to the stored slice instead of replacing it.
PutMerging(d, ns, doc, v) ==
    LET nsV == MapGet(d.storage, ns, EmptyMap)
        merged == GoAppend(MapGet(nsV, doc, NilSlice), v)
    IN  [ds |-> [d EXCEPT !.storage = MapPut(d.storage, ns, MapPut(nsV, doc, merged))],
         err |-> NoErr]

Put(d, ns, doc, v) ==
    LET nsV == MapGet(d.storage, ns, EmptyMap)
    IN  [ds |-> [d EXCEPT !.storage = MapPut(d.storage, ns, MapPut(nsV, doc, v))],
         err |-> NoErr]

\* ------------------------------------------------------------------------
\* The checked operations. Each returns the store it leaves, its error, the
\* bytes it returns (CheckedGet) and the engine methods it invoked, in order.

\* CheckedSetAdmin handing clientToken, not token, to SetAdmin.
CheckedSetAdminStoringClient(d, clientToken, token, is) ==
    LET q == IsRoot(d, clientToken)
    IN  IF q.err # NoErr
        THEN [ds |-> d, err |-> q.err, bytes |-> NilSlice, trace |-> <<"IsRoot">>]
        ELSE IF ~q.ok
        THEN [ds |-> d, err |-> ErrAccessDenied, bytes |-> NilSlice, trace |-> <<"IsRoot">>]
        ELSE LET r == SetAdmin(d, clientToken, is)
             IN  [ds |-> r.ds, err |-> r.err, bytes |-> NilSlice,
                  trace |-> <<"IsRoot", "SetAdmin">>]

CheckedSetAdmin(d, clientToken, token, is) ==
    LET q == IsRoot(d, clientToken)
    IN  IF q.err # NoErr
        THEN [ds |-> d, err |-> q.err, bytes |-> NilSlice, trace |-> <<"IsRoot">>]
        ELSE IF ~q.ok
        THEN [ds |-> d, err |-> ErrAccessDenied, bytes |-> NilSlice, trace |-> <<"IsRoot">>]
        ELSE LET r == SetAdmin(d, token, is)
             IN  [ds |-> r.ds, err |-> r.err, bytes |-> NilSlice,
                  trace |-> <<"IsRoot", "SetAdmin">>]

\* CheckedSetNamespaceAdmin also admitting the namespace admins of ns.
CheckedSetNamespaceAdminByNsAdmin(d, clientToken, token, ns, is) ==
    LET q == IsAdmin(d, clientToken)
        q2 == IsNamespaceAdmin(d, clientToken, ns)
    IN  IF q.err # NoErr
        THEN [ds |-> d, err |-> q.err, bytes |-> NilSlice, trace |-> <<"IsAdmin">>]
        ELSE IF ~(q.ok \/ q2.ok)
        THEN [ds |-> d, err |-> ErrAccessDenied, bytes |-> NilSlice, trace |-> <<"IsAdmin">>]
        ELSE LET r == SetNamespaceAdmin(d, token, ns, is)
             IN  [ds |-> r.ds, err |-> r.err, bytes |-> NilSlice,
                  trace |-> <<"IsAdmin", "SetNamespaceAdmin">>]

CheckedSetNamespaceAdmin(d, clientToken, token, ns, is) ==
    LET q == IsAdmin(d, clientToken)
    IN  IF q.err # NoErr
        THEN [ds |-> d, err |-> q.err, bytes |-> NilSlice, trace |-> <<"IsAdmin">>]
        ELSE IF ~q.ok
        THEN [ds |-> d, err |-> ErrAccessDenied, bytes |-> NilSlice, trace |-> <<"IsAdmin">>]
        ELSE LET r == SetNamespaceAdmin(d, token, ns, is)
             IN  [ds |-> r.ds, err |-> r.err, bytes |-> NilSlice,
                  trace |-> <<"IsAdmin", "SetNamespaceAdmin">>]

CheckedSetToken(d, clientToken, token, ns, doc, get, put, app) ==
    LET q == IsNamespaceAdmin(d, clientToken, ns)
    IN  IF q.err # NoErr
        THEN [ds |-> d, err |-> q.err, bytes |-> NilSlice, trace |-> <<"IsNamespaceAdmin">>]
        ELSE IF ~q.ok
        THEN [ds |-> d, err |-> ErrAccessDenied, bytes |-> NilSlice,
              trace |-> <<"IsNamespaceAdmin">>]
        ELSE LET r == SetToken(d, token, ns, doc, get, put, app)
             IN  [ds |-> r.ds, err |-> r.err, bytes |-> NilSlice,
                  trace |-> <<"IsNamespaceAdmin", "SetToken">>]

CheckedGet(d, clientToken, ns, doc) ==
    LET q == CanGet(d, clientToken, ns, doc)
    IN  IF q.err # NoErr
        THEN [ds |-> d, err |-> q.err, bytes |-> NilSlice, trace |-> <<"CanGet">>]
        ELSE IF ~q.ok
        THEN [ds |-> d, err |-> ErrAccessDenied, bytes |-> NilSlice, trace |-> <<"CanGet">>]
        ELSE LET r == Get(d, ns, doc)
             IN  [ds |-> d, err |-> r.err, bytes |-> r.bytes, trace |-> <<"CanGet", "Get">>]

\* CheckedPut consulting the Get bit instead of the Put bit.
CheckedPutByCanGet(d, clientToken, ns, doc, v) ==
    LET q == CanGet(d, clientToken, ns, doc)
    IN  IF q.err # NoErr
        THEN [ds |-> d, err |-> q.err, bytes |-> NilSlice, trace |-> <<"CanPut">>]
        ELSE IF ~q.ok
        THEN [ds |-> d, err |-> ErrAccessDenied, bytes |-> NilSlice, trace |-> <<"CanPut">>]
        ELSE LET r == Put(d, ns, doc, v)
             IN  [ds |-> r.ds, err |-> r.err, bytes |-> NilSlice, trace |-> <<"CanPut", "Put">>]

CheckedPut(d, clientToken, ns, doc, v) ==
    LET q == CanPut(d, clientToken, ns, doc)
    IN  IF q.err # NoErr
        THEN [ds |-> d, err |-> q.err, bytes |-> NilSlice, trace |-> <<"CanPut">>]
        ELSE IF ~q.ok
        THEN [ds |-> d, err |-> ErrAccessDenied, bytes |-> NilSlice, trace |-> <<"CanPut">>]
        ELSE LET r == Put(d, ns, doc, v)
             IN  [ds |-> r.ds, err |-> r.err, bytes |-> NilSlice, trace |-> <<"CanPut", "Put">>]

CheckedAppend(d, clientToken, ns, doc, delim, v) ==
    LET q == CanAppend(d, clientToken, ns, doc)
    IN  IF q.err # NoErr
        THEN [ds |-> d, err |-> q.err, bytes |-> NilSlice, trace |-> <<"CanAppend">>]
        ELSE IF ~q.ok
        THEN [ds |-> d, err |-> ErrAccessDenied, bytes |-> NilSlice, trace |-> <<"CanAppend">>]
        ELSE LET r == AppendDoc(d, ns, doc, delim, v)
             IN  [ds |-> r.ds, err |-> r.err, bytes |-> NilSlice,
                  trace |-> <<"CanAppend", "Append">>]

\* ------------------------------------------------------------------------
\* Calls. A call applies one operation to the store and records what was
\* called and what came back.

NoCall ==
    [op |-> "-", clientToken |-> "-", token |-> "-", ns |-> "-", doc |-> "-",
     is |-> FALSE, get |-> FALSE, put |-> FALSE, app |-> FALSE,
     delim |-> NilSlice, v |-> NilSlice,
     trace |-> <<>>, ok |-> FALSE, err |-> NoErr, bytes |-> NilSlice,
     oldBytes |-> NilSlice, oldBits |-> 0, rep |-> FALSE]

\* The operation and arguments of a call.
Sig(c) ==
    <<c.op, c.clientToken, c.token, c.ns, c.doc, c.is, c.get, c.put, c.app, c.delim, c.v>>

Invoked(c, method) == \E i \in DOMAIN c.trace : c.trace[i] = method

\* What the store held, before a call, at the key and for the token the call names.
StoredBytes(d, ns, doc) == MapGet(MapGet(d.storage, ns, EmptyMap), doc, NilSlice)

StoredBits(d, token, ns, doc) ==
    MapGet(MapGet(MapGet(d.perms, ns, EmptyMap), doc, EmptyMap), token, 0)

Record(c, newDs) ==
    /\ budget' = budget - 1
    /\ ds' = newDs
    /\ last' = [c EXCEPT !.rep = (Sig(c) = Sig(last)),
                         !.oldBytes = StoredBytes(ds, c.ns, c.doc),
                         !.oldBits = StoredBits(ds, c.token, c.ns, c.doc)]
    /\ granted' = IF ~Invoked(c, "SetToken") THEN granted
                  ELSE IF c.get \/ c.put \/ c.app
                  THEN granted \cup {<<c.token, c.ns, c.doc>>}
                  ELSE granted \ {<<c.token, c.ns, c.doc>>}
    /\ written' = IF Invoked(c, "Put") \/ Invoked(c, "Append")
                  THEN written \cup {<<c.ns, c.doc>>}
                  ELSE written
    /\ UNCHANGED <<heap, bufs, mutex, th, lin>>

\* The threads that call into the store.
Threads == {"t1", "t2"}

\* A thread that is in no call: call is the operation and arguments of the call
\* it makes and, once returned, its results; method is the engine method it is
\* in and pc the place in it; held counts its Lock calls not yet matched by an
\* Unlock; q is what the last query method returned to it; authAtAct tells
\* whether a checked operation's predicate held when the forwarded method ran.
IdleFrame ==
    [call |-> NoCall, method |-> "-", pc |-> "idle", held |-> 0,
     q |-> [ok |-> FALSE, err |-> NoErr], authAtAct |-> TRUE]

Fresh ==
    /\ ds = NewMemDataStore("R")
    /\ last = NoCall
    /\ granted = {}
    /\ written = {}
    /\ heap = <<>>
    /\ bufs = {}
    /\ mutex = FALSE
    /\ th = [t \in Threads |-> IdleFrame]
    /\ lin = NewMemDataStore("R")

Init == Fresh /\ budget = MaxCalls

InitGate == Fresh /\ budget = MaxGateCalls

InitAll == Fresh /\ budget = MaxAllCalls

\* ---- calls on the engine ----

IsRootCall ==
    \E token \in Tokens :
        /\ budget > 0
        /\ LET r == IsRoot(ds, token)
           IN  Record([NoCall EXCEPT !.op = "IsRoot", !.token = token,
                           !.trace = <<"IsRoot">>, !.ok = r.ok, !.err = r.err], ds)

IsAdminCall ==
    \E token \in Tokens :
        /\ budget > 0
        /\ LET r == IsAdmin(ds, token)
           IN  Record([NoCall EXCEPT !.op = "IsAdmin", !.token = token,
                           !.trace = <<"IsAdmin">>, !.ok = r.ok, !.err = r.err], ds)

IsNamespaceAdminCall ==
    \E token \in Tokens, ns \in Namespaces :
        /\ budget > 0
        /\ LET r == IsNamespaceAdmin(ds, token, ns)
           IN  Record([NoCall EXCEPT !.op = "IsNamespaceAdmin", !.token = token, !.ns = ns,
                           !.trace = <<"IsNamespaceAdmin">>, !.ok = r.ok, !.err = r.err], ds)

CanGetCall ==
    \E token \in Tokens, k \in Keys :
        /\ budget > 0
        /\ LET r == CanGet(ds, token, k[1], k[2])
           IN  Record([NoCall EXCEPT !.op = "CanGet", !.token = token, !.ns = k[1], !.doc = k[2],
                           !.trace = <<"CanGet">>, !.ok = r.ok, !.err = r.err], ds)

CanPutCall ==
    \E token \in Tokens, k \in Keys :
        /\ budget > 0
        /\ LET r == CanPut(ds, token, k[1], k[2])
           IN  Record([NoCall EXCEPT !.op = "CanPut", !.token = token, !.ns = k[1], !.doc = k[2],
                           !.trace = <<"CanPut">>, !.ok = r.ok, !.err = r.err], ds)

CanAppendCall ==
    \E token \in Tokens, k \in Keys :
        /\ budget > 0
        /\ LET r == CanAppend(ds, token, k[1], k[2])
           IN  Record([NoCall EXCEPT !.op = "CanAppend", !.token = token, !.ns = k[1],
                           !.doc = k[2], !.trace = <<"CanAppend">>, !.ok = r.ok,
                           !.err = r.err], ds)

GetCall ==
    \E k \in Keys :
        /\ budget > 0
        /\ LET r == Get(ds, k[1], k[2])
           IN  Record([NoCall EXCEPT !.op = "Get", !.ns = k[1], !.doc = k[2],
                           !.trace = <<"Get">>, !.bytes = r.bytes, !.err = r.err], ds)

SetAdminCall ==
    \E token \in Tokens, is \in BOOLEAN :
        /\ budget > 0
        /\ LET r == SetAdmin(ds, token, is)
           IN  Record([NoCall EXCEPT !.op = "SetAdmin", !.token = token, !.is = is,
                           !.trace = <<"SetAdmin">>, !.err = r.err], r.ds)

SetNamespaceAdminCall ==
    \E token \in Tokens, ns \in Namespaces, is \in BOOLEAN :
        /\ budget > 0
        /\ LET r == SetNamespaceAdmin(ds, token, ns, is)
           IN  Record([NoCall EXCEPT !.op = "SetNamespaceAdmin", !.token = token, !.ns = ns,
                           !.is = is, !.trace = <<"SetNamespaceAdmin">>, !.err = r.err], r.ds)

SetTokenCall ==
    \E token \in Tokens, k \in Keys, get \in BOOLEAN,
       put \in BOOLEAN, app \in BOOLEAN :
        /\ budget > 0
        /\ LET r == SetToken(ds, token, k[1], k[2], get, put, app)
           IN  Record([NoCall EXCEPT !.op = "SetToken", !.token = token, !.ns = k[1],
                           !.doc = k[2], !.get = get, !.put = put, !.app = app,
                           !.trace = <<"SetToken">>, !.err = r.err], r.ds)

PutCall ==
    \E k \in Keys, v \in Values :
        /\ budget > 0
        /\ LET r == Put(ds, k[1], k[2], v)
           IN  Record([NoCall EXCEPT !.op = "Put", !.ns = k[1], !.doc = k[2], !.v = v,
                           !.trace = <<"Put">>, !.err = r.err], r.ds)

AppendCall ==
    \E k \in Keys, delim \in Delims, v \in Values :
        /\ budget > 0
        /\ LET r == AppendDoc(ds, k[1], k[2], delim, v)
           IN  Record([NoCall EXCEPT !.op = "Append", !.ns = k[1], !.doc = k[2],
                           !.delim = delim, !.v = v, !.trace = <<"Append">>,
                           !.err = r.err], r.ds)

Next ==
    \/ IsRootCall
    \/ IsAdminCall
    \/ IsNamespaceAdminCall
    \/ CanGetCall
    \/ CanPutCall
    \/ CanAppendCall
    \/ GetCall
    \/ SetAdminCall
    \/ SetNamespaceAdminCall
    \/ SetTokenCall
    \/ PutCall
    \/ AppendCall

\* Any sequence of calls on the engine, one at a time.
Spec == Init /\ [][Next]_vars

\* ---- calls on the checked operations ----

CheckedSetAdminCall ==
    \E clientToken \in Tokens, token \in Tokens, is \in BOOLEAN :
        /\ budget > 0
        /\ LET r == CheckedSetAdmin(ds, clientToken, token, is)
           IN  Record([NoCall EXCEPT !.op = "CheckedSetAdmin", !.clientToken = clientToken,
                           !.token = token, !.is = is, !.trace = r.trace,
                           !.err = r.err], r.ds)

CheckedSetNamespaceAdminCall ==
    \E clientToken \in Tokens, token \in Tokens, ns \in Namespaces, is \in BOOLEAN :
        /\ budget > 0
        /\ LET r == CheckedSetNamespaceAdmin(ds, clientToken, token, ns, is)
           IN  Record([NoCall EXCEPT !.op = "CheckedSetNamespaceAdmin",
                           !.clientToken = clientToken, !.token = token, !.ns = ns,
                           !.is = is, !.trace = r.trace, !.err = r.err], r.ds)

CheckedSetTokenCall ==
    \E clientToken \in Tokens, token \in Tokens, k \in Keys,
       get \in BOOLEAN, put \in BOOLEAN, app \in BOOLEAN :
        /\ budget > 0
        /\ LET r == CheckedSetToken(ds, clientToken, token, k[1], k[2], get, put, app)
           IN  Record([NoCall EXCEPT !.op = "CheckedSetToken", !.clientToken = clientToken,
                           !.token = token, !.ns = k[1], !.doc = k[2], !.get = get,
                           !.put = put, !.app = app, !.trace = r.trace,
                           !.err = r.err], r.ds)

CheckedGetCall ==
    \E clientToken \in Tokens, k \in Keys :
        /\ budget > 0
        /\ LET r == CheckedGet(ds, clientToken, k[1], k[2])
           IN  Record([NoCall EXCEPT !.op = "CheckedGet", !.clientToken = clientToken,
                           !.ns = k[1], !.doc = k[2], !.trace = r.trace, !.bytes = r.bytes,
                           !.err = r.err], r.ds)

CheckedPutCall ==
    \E clientToken \in Tokens, k \in Keys, v \in Values :
        /\ budget > 0
        /\ LET r == CheckedPut(ds, clientToken, k[1], k[2], v)
           IN  Record([NoCall EXCEPT !.op = "CheckedPut", !.clientToken = clientToken,
                           !.ns = k[1], !.doc = k[2], !.v = v, !.trace = r.trace,
                           !.err = r.err], r.ds)

CheckedAppendCall ==
    \E clientToken \in Tokens, k \in Keys, delim \in Delims, v \in Values :
        /\ budget > 0
        /\ LET r == CheckedAppend(ds, clientToken, k[1], k[2], delim, v)
           IN  Record([NoCall EXCEPT !.op = "CheckedAppend", !.clientToken = clientToken,
                           !.ns = k[1], !.doc = k[2], !.delim = delim, !.v = v,
                           !.trace = r.trace, !.err = r.err], r.ds)

NextGate ==
    \/ CheckedSetAdminCall
    \/ CheckedSetNamespaceAdminCall
    \/ CheckedSetTokenCall
    \/ CheckedGetCall
    \/ CheckedPutCall
    \/ CheckedAppendCall

\* Any sequence of checked calls, each run to completion before the next.
SpecGate == InitGate /\ [][NextGate]_vars

\* ---- calls of either kind ----

NextAll == Next \/ NextGate

\* Checked calls made against a store that engine calls have set up.
SpecAll == InitAll /\ [][NextAll]_vars

\* ------------------------------------------------------------------------
\* Properties of the checked operations.

CheckedOps ==
    {"CheckedGet", "CheckedPut", "CheckedAppend", "CheckedSetToken",
     "CheckedSetNamespaceAdmin", "CheckedSetAdmin"}

\* The one predicate a checked operation consults, evaluated on store d for call c.
PredicateOf(d, c) ==
    CASE c.op = "CheckedGet" -> CanGet(d, c.clientToken, c.ns, c.doc)
      [] c.op = "CheckedPut" -> CanPut(d, c.clientToken, c.ns, c.doc)
      [] c.op = "CheckedAppend" -> CanAppend(d, c.clientToken, c.ns, c.doc)
      [] c.op = "CheckedSetToken" -> IsNamespaceAdmin(d, c.clientToken, c.ns)
      [] c.op = "CheckedSetNamespaceAdmin" -> IsAdmin(d, c.clientToken)
      [] c.op = "CheckedSetAdmin" -> IsRoot(d, c.clientToken)

\* The engine method a checked operation forwards to.
ForwardOf(op) ==
    CASE op = "CheckedGet" -> "Get"
      [] op = "CheckedPut" -> "Put"
      [] op = "CheckedAppend" -> "Append"
      [] op = "CheckedSetToken" -> "SetToken"
      [] op = "CheckedSetNamespaceAdmin" -> "SetNamespaceAdmin"
      [] op = "CheckedSetAdmin" -> "SetAdmin"

\* The store the forwarded engine method leaves when applied to d with c's arguments.
ForwardedStore(d, c) ==
    CASE c.op = "CheckedGet" -> d
      [] c.op = "CheckedPut" -> Put(d, c.ns, c.doc, c.v).ds
      [] c.op = "CheckedAppend" -> AppendDoc(d, c.ns, c.doc, c.delim, c.v).ds
      [] c.op = "CheckedSetToken" -> SetToken(d, c.token, c.ns, c.doc, c.get, c.put, c.app).ds
      [] c.op = "CheckedSetNamespaceAdmin" -> SetNamespaceAdmin(d, c.token, c.ns, c.is).ds
      [] c.op = "CheckedSetAdmin" -> SetAdmin(d, c.token, c.is).ds

\* C1: a checked operation forwards to the engine exactly when its one predicate,
\* evaluated on clientToken in the store the call meets, returned true with no
\* error; then the engine method's effect is the call's effect. On false the call
\* returns ErrAccessDenied, on an error it returns that error, and in both cases
\* the store (documents, admins, namespace admins, permission records) is unchanged.
C1_ForwardIffPredicate ==
    [][ last'.op \in CheckedOps =>
          LET c == last'
              q == PredicateOf(ds, c)
              allowed == q.ok /\ q.err = NoErr
          IN  /\ Invoked(c, ForwardOf(c.op)) <=> allowed
              /\ allowed => /\ ds' = ForwardedStore(ds, c)
                            /\ c.err = NoErr
                            /\ c.op = "CheckedGet" => c.bytes = Get(ds, c.ns, c.doc).bytes
              /\ (q.err = NoErr /\ ~q.ok) => (c.err = ErrAccessDenied /\ ds' = ds)
              /\ q.err # NoErr => (c.err = q.err /\ ds' = ds)
              /\ ~allowed => Len(c.trace) = 1
      ]_vars

\* A CheckedPut whose predicate held and whose Put was carried out.
C1_Witness ==
    /\ last.op = "CheckedPut"
    /\ Invoked(last, "Put")
    /\ last.err = NoErr
    /\ last.v = MkSlice(<<"a">>)
    /\ StoredBytes(ds, last.ns, last.doc) = last.v

HasBit(bits, perm) == (bits \div perm) % 2 = 1

\* What the tables hold for a token: its entries, read without the query methods.
InAdmins(d, token) == token \in DOMAIN d.admins /\ d.admins[token]

InNsAdmins(d, token, ns) ==
    /\ ns \in DOMAIN d.nsAdmins
    /\ token \in DOMAIN d.nsAdmins[ns]
    /\ d.nsAdmins[ns][token]

NsAdminsOf(d, ns) ==
    [present |-> ns \in DOMAIN d.nsAdmins, members |-> MapGet(d.nsAdmins, ns, EmptyMap)]

PermsOf(d, ns) ==
    [present |-> ns \in DOMAIN d.perms, records |-> MapGet(d.perms, ns, EmptyMap)]

\* A token that is neither root, nor admin, nor namespace admin anywhere.
OnlyDocumentToken(d, token) ==
    /\ token # d.rootToken
    /\ ~InAdmins(d, token)
    /\ \A ns \in Namespaces : ~InNsAdmins(d, token, ns)

AllKeys == Namespaces \X Docs

\* The step is a Put or an Append on the key (ns, doc).
WritesKey(c, ns, doc) == c.op \in {"Put", "Append"} /\ c.ns = ns /\ c.doc = doc

\* C4: after Put(ns, doc, v), Get(ns, doc) returns exactly v, the zero-length
\* value included, whatever the document held before; the namespace and the
\* document entry exist afterwards; and Get(ns, doc) keeps returning the same
\* until the next Put or Append on (ns, doc).
C4_PutGetRoundTrip ==
    [][ LET c == last'
        IN  /\ c.op = "Put" =>
                 /\ Get(ds', c.ns, c.doc).bytes = c.v
                 /\ Get(ds', c.ns, c.doc).err = NoErr
                 /\ c.ns \in DOMAIN ds'.storage
                 /\ c.doc \in DOMAIN ds'.storage[c.ns]
                 /\ c.err = NoErr
            /\ \A k \in AllKeys :
                 ~WritesKey(c, k[1], k[2]) => Get(ds', k[1], k[2]) = Get(ds, k[1], k[2])
            /\ c.op = "Get" => c.bytes = Get(ds, c.ns, c.doc).bytes
      ]_vars

\* A Put of the zero-length value over a document that held a byte.
C4_Witness ==
    /\ last.op = "Put"
    /\ last.oldBytes = MkSlice(<<"a">>)
    /\ last.v = MkSlice(<<>>)
    /\ Get(ds, last.ns, last.doc).bytes = MkSlice(<<>>)

\* C5: Append(ns, doc, d, v) leaves old ++ d ++ v in the document, old being the
\* bytes held before the call and empty when the document did not exist: the
\* delimiter goes in front of every appended value, the first included. Nothing
\* but a Put or an Append on the key changes those bytes, so n appends to a key
\* that did not exist leave d1 ++ v1 ++ ... ++ dn ++ vn.
C5_AppendComposition ==
    [][ LET c == last'
        IN  /\ c.op = "Append" =>
                 /\ StoredBytes(ds', c.ns, c.doc).bytes =
                        StoredBytes(ds, c.ns, c.doc).bytes \o c.delim.bytes \o c.v.bytes
                 /\ Get(ds', c.ns, c.doc).bytes.bytes =
                        Get(ds, c.ns, c.doc).bytes.bytes \o c.delim.bytes \o c.v.bytes
                 /\ c.err = NoErr
            /\ \A k \in AllKeys :
                 ~WritesKey(c, k[1], k[2]) =>
                     StoredBytes(ds', k[1], k[2]) = StoredBytes(ds, k[1], k[2])
      ]_vars

\* Two appends of "a" with delimiter "|" to a key that did not exist: "|a|a".
C5_Witness ==
    /\ last.op = "Append"
    /\ last.oldBytes = MkSlice(<<"|", "a">>)
    /\ Get(ds, last.ns, last.doc).bytes = MkSlice(<<"|", "a", "|", "a">>)

\* C6 as stated: Get(ns, doc) returns the NotFound result (nil) if and only if
\* no Put or Append on (ns, doc) has completed; a document written with
\* zero-length content reads back as an existing empty value.
C6_NotFoundIffNeverWritten ==
    \A k \in AllKeys :
        Get(ds, k[1], k[2]).bytes.isNil <=> (<<k[1], k[2]>> \notin written)

\* C7: a triple whose latest SetToken, if any, was all-false has CanGet, CanPut
\* and CanAppend false with no error, whether or not the permission table knows
\* the namespace or the document; so the grants of another token, document or
\* namespace give it nothing, and neither does being root, admin or namespace
\* admin.
C7_DefaultDeny ==
    /\ \A t \in Tokens, ns \in Namespaces, doc \in Docs :
         <<t, ns, doc>> \notin granted =>
             /\ CanGet(ds, t, ns, doc) = [ok |-> FALSE, err |-> NoErr]
             /\ CanPut(ds, t, ns, doc) = [ok |-> FALSE, err |-> NoErr]
             /\ CanAppend(ds, t, ns, doc) = [ok |-> FALSE, err |-> NoErr]
    /\ ( /\ last.op \in {"CanGet", "CanPut", "CanAppend"}
         /\ <<last.token, last.ns, last.doc>> \notin granted ) =>
             (~last.ok /\ last.err = NoErr)

\* CanGet has just refused a token on a document for which another token holds
\* the Get bit.
C7_Witness ==
    /\ last.op = "CanGet"
    /\ ~last.ok
    /\ \E t \in Tokens \ {last.token} :
          /\ <<t, last.ns, last.doc>> \in granted
          /\ HasBit(StoredBits(ds, t, last.ns, last.doc), permGet)

\* C8: after SetToken(t, ns, doc, g, p, a) the three queries on (t, ns, doc)
\* return exactly g, p and a, whatever the record held before; with all three
\* false no record is left for t.
C8_SetTokenOverwrites ==
    [][ LET c == last'
        IN  c.op = "SetToken" =>
              /\ CanGet(ds', c.token, c.ns, c.doc) = [ok |-> c.get, err |-> NoErr]
              /\ CanPut(ds', c.token, c.ns, c.doc) = [ok |-> c.put, err |-> NoErr]
              /\ CanAppend(ds', c.token, c.ns, c.doc) = [ok |-> c.app, err |-> NoErr]
              /\ (~c.get /\ ~c.put /\ ~c.app) =>
                     c.token \notin DOMAIN ds'.perms[c.ns][c.doc]
              /\ c.err = NoErr
      ]_vars

\* A record with all three bits has been overwritten to hold Put alone.
C8_Witness ==
    /\ last.op = "SetToken"
    /\ last.oldBits = permGet + permPut + permAppend
    /\ ~last.get /\ last.put /\ ~last.app
    /\ StoredBits(ds, last.token, last.ns, last.doc) = permPut

\* C9: every record present in the permission table has at least one of the Get,
\* Put and Append bits and no other bit: its value is in 1..7.
C9_NoEmptyRecord ==
    \A ns \in DOMAIN ds.perms :
        \A doc \in DOMAIN ds.perms[ns] :
            \A t \in DOMAIN ds.perms[ns][doc] :
                /\ ds.perms[ns][doc][t] >= 1
                /\ ds.perms[ns][doc][t] <= permGet + permPut + permAppend

\* An all-false SetToken has just removed a record that held capabilities.
C9_Witness ==
    /\ last.op = "SetToken"
    /\ ~last.get /\ ~last.put /\ ~last.app
    /\ last.oldBits > 0
    /\ last.token \notin DOMAIN ds.perms[last.ns][last.doc]

SetOps == {"SetAdmin", "SetNamespaceAdmin", "SetToken"}

\* C10: SetAdmin(t, is) leaves IsAdmin(t) = is and SetNamespaceAdmin(t, ns, is)
\* leaves IsNamespaceAdmin(t, ns) = is; a SetAdmin, SetNamespaceAdmin or SetToken
\* call that repeats the call just before it leaves the whole store unchanged;
\* unsetting a token that is no member, also in a namespace without admins, changes
\* nothing and returns no error.
C10_IdempotentGrants ==
    [][ LET c == last'
        IN  /\ c.op = "SetAdmin" =>
                 (IsAdmin(ds', c.token) = [ok |-> c.is, err |-> NoErr] /\ c.err = NoErr)
            /\ c.op = "SetNamespaceAdmin" =>
                 /\ IsNamespaceAdmin(ds', c.token, c.ns) = [ok |-> c.is, err |-> NoErr]
                 /\ c.err = NoErr
            /\ (c.op \in SetOps /\ c.rep) => ds' = ds
            /\ (c.op = "SetAdmin" /\ ~c.is /\ ~InAdmins(ds, c.token)) => ds' = ds
            /\ (c.op = "SetNamespaceAdmin" /\ ~c.is /\ ~InNsAdmins(ds, c.token, c.ns)) =>
                 ds' = ds
      ]_vars

\* The same namespace-admin grant has been made twice in a row.
C10_Witness ==
    /\ last.op = "SetNamespaceAdmin"
    /\ last.rep
    /\ last.is
    /\ InNsAdmins(ds, last.token, last.ns)

\* ------------------------------------------------------------------------
\* Properties of the root token.

\* C11: in every state reached by engine and checked calls, whatever SetAdmin,
\* SetNamespaceAdmin and SetToken have been applied to, the store's root token is
\* the token NewMemDataStore was given, IsRoot(t) is true for that token and
\* false for every other, with no error, and an IsRoot call returned just that.
C11_RootFixed ==
    /\ ds.rootToken = "R"
    /\ \A t \in Tokens : IsRoot(ds, t) = [ok |-> (t = "R"), err |-> NoErr]
    /\ last.op = "IsRoot" => (last.ok = (last.token = "R") /\ last.err = NoErr)

\* IsRoot has just answered false for a token that is in the admin set.
C11_Witness ==
    /\ last.op = "IsRoot"
    /\ last.token # "R"
    /\ ~last.ok
    /\ InAdmins(ds, last.token)

\* The root token is in some table of store d.
RootStored(d) ==
    \/ d.rootToken \in DOMAIN d.admins
    \/ \E ns \in DOMAIN d.nsAdmins : d.rootToken \in DOMAIN d.nsAdmins[ns]
    \/ \E ns \in DOMAIN d.perms :
          \E doc \in DOMAIN d.perms[ns] : d.rootToken \in DOMAIN d.perms[ns][doc]

\* C12 as stated: in every reachable state the root token is in no admin set, no
\* namespace-admin set and no permission record.
C12_RootNeverStored == ~RootStored(ds)

\* C12 amended: a new store holds the root token in no table, and the root
\* token's entry in a table changes only in a SetAdmin, SetNamespaceAdmin or
\* SetToken, called on the engine or forwarded by a checked operation, whose
\* token argument is the root token, and then as that call's flags say. Calls
\* naming another token, and the root token's use as clientToken, store nothing
\* for it; IsRoot stays true for it whatever the tables hold.
C12_RootStoredOnlyWhenNamed ==
    [][ LET c == last'
            root == ds.rootToken
        IN  /\ (root \in DOMAIN ds'.admins) # (root \in DOMAIN ds.admins) =>
                 /\ Invoked(c, "SetAdmin")
                 /\ c.token = root
                 /\ c.is = (root \in DOMAIN ds'.admins)
            /\ \A ns \in Namespaces :
                 InNsAdmins(ds', root, ns) # InNsAdmins(ds, root, ns) =>
                     /\ Invoked(c, "SetNamespaceAdmin")
                     /\ c.token = root
                     /\ c.ns = ns
                     /\ c.is = InNsAdmins(ds', root, ns)
            /\ \A k \in AllKeys :
                 StoredBits(ds', root, k[1], k[2]) # StoredBits(ds, root, k[1], k[2]) =>
                     /\ Invoked(c, "SetToken")
                     /\ c.token = root
                     /\ c.ns = k[1] /\ c.doc = k[2]
                     /\ HasBit(StoredBits(ds', root, k[1], k[2]), permGet) = c.get
                     /\ HasBit(StoredBits(ds', root, k[1], k[2]), permPut) = c.put
                     /\ HasBit(StoredBits(ds', root, k[1], k[2]), permAppend) = c.app
            /\ (ds = NewMemDataStore(root)) => ~RootStored(ds)
            /\ IsRoot(ds', root).ok
      ]_vars

\* The root token, as clientToken of CheckedSetAdmin, has put itself in the
\* admin set.
C12_Witness ==
    /\ last.op = "CheckedSetAdmin"
    /\ last.clientToken = ds.rootToken
    /\ last.token = ds.rootToken
    /\ last.is
    /\ Invoked(last, "SetAdmin")
    /\ InAdmins(ds, ds.rootToken)

\* ------------------------------------------------------------------------
\* Byte slices as Go has them: a slice is a header (backing array, length)
\* and the bytes live in the array, which every copy of the header shares.
\* heap[a] is backing array a, as long as its capacity.

\* The key the calls of SpecHeap name.
HeapKeys == {<<"ns1", "doc1">>}

\* What a caller puts, the delimiters and the value it appends, the byte it
\* writes into a slice it holds, and the capacity a new array may have beyond
\* the bytes it must hold (the allocator's choice).
PutContents == {<<"a">>}

AppendDelims == {<<>>, <<"|">>}

AppendContents == {<<"b">>}

WrittenByte == "x"

SpareCaps == {0, 1}

ZeroByte == "0"

RECURSIVE Zeros(_)
Zeros(n) == IF n = 0 THEN <<>> ELSE <<ZeroByte>> \o Zeros(n - 1)

\* A non-nil slice over array a with length n.
SliceOf(a, n) == [isNil |-> FALSE, arr |-> a, len |-> n]

\* len(s), cap(s) and the bytes s[0:len(s)].
SliceLen(s) == IF s.isNil THEN 0 ELSE s.len

SliceCap(h, s) == IF s.isNil THEN 0 ELSE Len(h[s.arr])

Deref(h, s) == IF s.isNil THEN <<>> ELSE SubSeq(h[s.arr], 1, s.len)

\* Go's append(s, x...) on the heap: nothing to append returns s itself; bytes
\* that fit the capacity are written into s's own array; otherwise a new array
\* takes the old bytes and the new ones, with `spare` bytes of room after them.
GoAppendShared(h, s, x, spare) ==
    IF Len(x) = 0 THEN [heap |-> h, slice |-> s]
    ELSE IF SliceLen(s) + Len(x) <= SliceCap(h, s)
    THEN [heap |-> [h EXCEPT ![s.arr] =
                       SubSeq(@, 1, s.len) \o x \o SubSeq(@, s.len + Len(x) + 1, Len(@))],
          slice |-> SliceOf(s.arr, s.len + Len(x))]
    ELSE [heap |-> Append(h, Deref(h, s) \o x \o Zeros(spare)),
          slice |-> SliceOf(Len(h) + 1, SliceLen(s) + Len(x))]

\* MemDataStore.Append on the heap: the two appends of lines 398 and 399.
AppendShared(h, d, ns, doc, delim, v, spare) ==
    LET nsV == MapGet(d.storage, ns, EmptyMap)
        a1 == GoAppendShared(h, MapGet(nsV, doc, NilSlice), delim, spare)
        a2 == GoAppendShared(a1.heap, a1.slice, v, spare)
    IN  [heap |-> a2.heap,
         ds |-> [d EXCEPT !.storage = MapPut(d.storage, ns, MapPut(nsV, doc, a2.slice))],
         err |-> NoErr]

\* The bytes a Get on (ns, doc) returns, read through the heap.
DocBytes(h, d, ns, doc) == Deref(h, Get(d, ns, doc).bytes)

HeapRecord(c, newDs, newHeap, newBufs) ==
    /\ budget' = budget - 1
    /\ ds' = newDs
    /\ last' = c
    /\ heap' = newHeap
    /\ bufs' = newBufs
    /\ UNCHANGED <<granted, written, mutex, th, lin>>

InitHeap == Fresh /\ budget = MaxHeapCalls

\* The caller makes a slice of its own and hands it to Put, keeping it.
HeapPutCall ==
    \E k \in HeapKeys, content \in PutContents, spare \in SpareCaps :
        /\ budget > 0
        /\ LET v == SliceOf(Len(heap) + 1, Len(content))
               r == Put(ds, k[1], k[2], v)
           IN  HeapRecord([NoCall EXCEPT !.op = "Put", !.ns = k[1], !.doc = k[2], !.v = v,
                               !.trace = <<"Put">>, !.err = r.err],
                          r.ds, Append(heap, content \o Zeros(spare)),
                          bufs \cup {[slice |-> v, origin |-> "Put"]})

\* The caller keeps the slice Get returns.
HeapGetCall ==
    \E k \in HeapKeys :
        /\ budget > 0
        /\ LET r == Get(ds, k[1], k[2])
           IN  HeapRecord([NoCall EXCEPT !.op = "Get", !.ns = k[1], !.doc = k[2],
                               !.trace = <<"Get">>, !.bytes = r.bytes, !.err = r.err],
                          ds, heap,
                          IF r.bytes.isNil THEN bufs
                          ELSE bufs \cup {[slice |-> r.bytes, origin |-> "Get"]})

HeapAppendCall ==
    \E k \in HeapKeys, delim \in AppendDelims, v \in AppendContents, spare \in SpareCaps :
        /\ budget > 0
        /\ LET r == AppendShared(heap, ds, k[1], k[2], delim, v, spare)
           IN  HeapRecord([NoCall EXCEPT !.op = "Append", !.ns = k[1], !.doc = k[2],
                               !.trace = <<"Append">>, !.err = r.err],
                          r.ds, r.heap, bufs)

\* The caller writes a byte into a slice that Get returned to it.
CallerWritesReturned ==
    \E b \in bufs :
        \E i \in 1..b.slice.len :
            /\ budget > 0
            /\ b.origin = "Get"
            /\ heap[b.slice.arr][i] # WrittenByte
            /\ HeapRecord([NoCall EXCEPT !.op = "WriteReturned", !.v = b.slice],
                          ds, [heap EXCEPT ![b.slice.arr][i] = WrittenByte], bufs)

\* The caller writes a byte into a slice that it passed to Put.
CallerWritesPassed ==
    \E b \in bufs :
        \E i \in 1..b.slice.len :
            /\ budget > 0
            /\ b.origin = "Put"
            /\ heap[b.slice.arr][i] # WrittenByte
            /\ HeapRecord([NoCall EXCEPT !.op = "WritePassed", !.v = b.slice],
                          ds, [heap EXCEPT ![b.slice.arr][i] = WrittenByte], bufs)

NextHeap ==
    \/ HeapPutCall
    \/ HeapGetCall
    \/ HeapAppendCall
    \/ CallerWritesReturned
    \/ CallerWritesPassed

\* Put, Get and Append on one store, and a caller that writes into the slices
\* it holds.
SpecHeap == InitHeap /\ [][NextHeap]_vars

\* C13 as stated: the bytes returned by Get share no storage with the engine: a
\* caller's write into a slice that Get returned leaves what Get returns for
\* every document as it was.
C13_NoAliasingOnRead ==
    [][ last'.op = "WriteReturned" =>
          \A k \in HeapKeys : DocBytes(heap', ds', k[1], k[2]) = DocBytes(heap, ds, k[1], k[2])
      ]_vars

\* C18 as stated: once Put(ns, doc, v) has returned, the stored document shares
\* no storage with the caller's v: a caller's write into v leaves what Get
\* returns for every document as it was, and an Append writes into no array
\* that a caller allocated.
C18_PutTakesOwnership ==
    [][ /\ last'.op = "WritePassed" =>
             \A k \in HeapKeys :
                 DocBytes(heap', ds', k[1], k[2]) = DocBytes(heap, ds, k[1], k[2])
        /\ last'.op = "Append" =>
             \A b \in bufs : b.origin = "Put" => heap'[b.slice.arr] = heap[b.slice.arr]
      ]_vars

\* ------------------------------------------------------------------------
\* The engine and the checked operations under concurrent callers. A thread
\* runs one call at a time; within an engine method it is at Lock ("lock"),
\* at a statement of the critical section ("b1", "b2", "b3"), at Unlock
\* ("unlock") or back in its caller ("ret").

Queries == {"IsRoot", "IsAdmin", "IsNamespaceAdmin", "CanGet", "CanPut", "CanAppend"}

\* The predicate method a checked operation calls first.
PredicateNameOf(op) ==
    CASE op = "CheckedGet" -> "CanGet"
      [] op = "CheckedPut" -> "CanPut"
      [] op = "CheckedAppend" -> "CanAppend"
      [] op = "CheckedSetToken" -> "IsNamespaceAdmin"
      [] op = "CheckedSetNamespaceAdmin" -> "IsAdmin"
      [] op = "CheckedSetAdmin" -> "IsRoot"

\* The token a query is asked about: clientToken within a checked operation.
Subject(c) == IF c.op \in CheckedOps THEN c.clientToken ELSE c.token

\* What a query method answers on store d within call c.
QueryOn(d, method, c) ==
    CASE method = "IsRoot" -> IsRoot(d, Subject(c))
      [] method = "IsAdmin" -> IsAdmin(d, Subject(c))
      [] method = "IsNamespaceAdmin" -> IsNamespaceAdmin(d, Subject(c), c.ns)
      [] method = "CanGet" -> CanGet(d, Subject(c), c.ns, c.doc)
      [] method = "CanPut" -> CanPut(d, Subject(c), c.ns, c.doc)
      [] method = "CanAppend" -> CanAppend(d, Subject(c), c.ns, c.doc)

\* The store an engine method leaves when it runs alone on d with c's arguments.
EffectOn(d, method, c) ==
    CASE method = "Put" -> Put(d, c.ns, c.doc, c.v).ds
      [] method = "Append" -> AppendDoc(d, c.ns, c.doc, c.delim, c.v).ds
      [] method = "SetToken" -> SetToken(d, c.token, c.ns, c.doc, c.get, c.put, c.app).ds
      [] method = "SetNamespaceAdmin" -> SetNamespaceAdmin(d, c.token, c.ns, c.is).ds
      [] method = "SetAdmin" -> SetAdmin(d, c.token, c.is).ds
      [] OTHER -> d

\* The statements of the critical sections that are more than one table write.

\* SetNamespaceAdmin, lines 199-203.
SetNsAdminEntry(d, token, ns, is) ==
    LET nsV == MapGet(d.nsAdmins, ns, EmptyMap)
        newV == IF is THEN MapPut(nsV, token, TRUE) ELSE MapDelete(nsV, token)
    IN  [d EXCEPT !.nsAdmins = MapPut(d.nsAdmins, ns, newV)]

\* SetToken, lines 260-265, 267-272 and 274-298.
EnsurePermsNs(d, ns) ==
    IF ns \in DOMAIN d.perms THEN d
    ELSE [d EXCEPT !.perms = MapPut(d.perms, ns, EmptyMap)]

EnsurePermsDoc(d, ns, doc) ==
    LET nsV == MapGet(d.perms, ns, EmptyMap)
    IN  IF doc \in DOMAIN nsV THEN d
        ELSE [d EXCEPT !.perms = MapPut(d.perms, ns, MapPut(nsV, doc, EmptyMap))]

UpdatePerms(d, token, ns, doc, get, put, app) ==
    LET nsV == MapGet(d.perms, ns, EmptyMap)
        docV == MapGet(nsV, doc, EmptyMap)
        newDocV == IF get = FALSE /\ put = FALSE /\ app = FALSE
                   THEN MapDelete(docV, token)
                   ELSE MapPut(docV, token, SetBits(MapGet(docV, token, 0), get, put, app))
    IN  [d EXCEPT !.perms = MapPut(d.perms, ns, MapPut(nsV, doc, newDocV))]

\* Append, lines 391-396, and line 398 or 399: nsV[doc] = append(nsV[doc], x...).
EnsureStorageNs(d, ns) ==
    IF ns \in DOMAIN d.storage THEN d
    ELSE [d EXCEPT !.storage = MapPut(d.storage, ns, EmptyMap)]

AppendBytes(d, ns, doc, x) ==
    LET nsV == MapGet(d.storage, ns, EmptyMap)
    IN  [d EXCEPT !.storage =
            MapPut(d.storage, ns, MapPut(nsV, doc, GoAppend(MapGet(nsV, doc, NilSlice), x)))]

\* Lock proceeds when the mutex is unlocked, and blocks otherwise.
MutexAvailableAlways(m) == TRUE

MutexAvailable(m) == ~m

\* Where a call of an engine method starts. Queries entering their critical
\* section without Lock:
EntryPcQueriesUnlocked(method) == IF method \in Queries THEN "b1" ELSE "lock"

\* Every method starts at ds.mutex.Lock().
EntryPc(method) == "lock"

\* Where SetNamespaceAdmin goes when the namespace has no admins and is is
\* false. Returning at once, without the Unlock of line 191:
EarlyExitNoUnlock == "ret"

\* Lines 191-192: Unlock, then return.
EarlyExit == "unlock"

\* What a checked operation does with its predicate's answer. Forwarding on
\* false and denying on true:
AfterCheckInverted(q) ==
    IF q.err # NoErr THEN "error"
    ELSE IF q.ok THEN "deny"
    ELSE "forward"

\* Lines 58-66, and the same in the other five.
AfterCheck(q) ==
    IF q.err # NoErr THEN "error"
    ELSE IF ~q.ok THEN "deny"
    ELSE "forward"

\* The store the concurrent calls start from: T is admin, namespace admin
\* of ns1 and holds Get, Put and Append on (ns1, doc1), which holds "i".
ConcStore ==
    LET s1 == SetAdmin(NewMemDataStore("R"), "T", TRUE).ds
        s2 == SetNamespaceAdmin(s1, "T", "ns1", TRUE).ds
        s3 == SetToken(s2, "T", "ns1", "doc1", TRUE, TRUE, TRUE).ds
    IN  Put(s3, "ns1", "doc1", MkSlice(<<"i">>)).ds

\* The calls the threads make: the six checked operations, the revocations
\* that race with them, an Append, a Get and a query.
ConcCalls ==
    LET onDoc == [NoCall EXCEPT !.ns = "ns1", !.doc = "doc1"]
    IN  { [onDoc EXCEPT !.op = "CheckedGet", !.clientToken = "T"],
          [onDoc EXCEPT !.op = "CheckedPut", !.clientToken = "T", !.v = MkSlice(<<"b">>)],
          [onDoc EXCEPT !.op = "CheckedAppend", !.clientToken = "T",
                        !.delim = MkSlice(<<"|">>), !.v = MkSlice(<<"b">>)],
          [onDoc EXCEPT !.op = "CheckedSetToken", !.clientToken = "T", !.token = "R",
                        !.get = TRUE],
          [NoCall EXCEPT !.op = "CheckedSetNamespaceAdmin", !.clientToken = "T",
                         !.token = "R", !.ns = "ns1", !.is = TRUE],
          [NoCall EXCEPT !.op = "CheckedSetAdmin", !.clientToken = "R", !.token = "T"],
          [onDoc EXCEPT !.op = "SetToken", !.token = "T"],
          [NoCall EXCEPT !.op = "SetNamespaceAdmin", !.token = "T", !.ns = "ns1"],
          [NoCall EXCEPT !.op = "SetNamespaceAdmin", !.token = "T", !.ns = "ns2"],
          [onDoc EXCEPT !.op = "Append", !.delim = MkSlice(<<"|">>), !.v = MkSlice(<<"a">>)],
          [onDoc EXCEPT !.op = "Get"],
          [onDoc EXCEPT !.op = "CanGet", !.token = "T"] }

SetUp ==
    /\ ds = ConcStore
    /\ lin = ConcStore
    /\ mutex = FALSE
    /\ th = [t \in Threads |-> IdleFrame]
    /\ last = NoCall
    /\ granted = {<<"T", "ns1", "doc1">>}
    /\ written = {<<"ns1", "doc1">>}
    /\ heap = <<>>
    /\ bufs = {}

InitConc == SetUp /\ budget = MaxConcCalls

InitFair == SetUp /\ budget = MaxFairCalls

\* A step of thread t inside a critical section: its frame and the store.
OwnStep(t, f, newDs) ==
    /\ th' = [th EXCEPT ![t] = f]
    /\ ds' = newDs
    /\ UNCHANGED <<mutex, lin, budget, last, granted, written, heap, bufs>>

\* The frame after the last statement of a method that reads or writes the
\* documents or the tables on behalf of call c.
Acted(f) ==
    [f EXCEPT !.pc = "unlock",
              !.authAtAct = IF f.call.op \in CheckedOps
                            THEN PredicateOf(ds, f.call).ok
                            ELSE TRUE]

\* A thread starts a call: of an engine method, or of a checked operation,
\* which calls its predicate first.
Invoke(t) ==
    \E c \in ConcCalls :
        /\ th[t].pc = "idle"
        /\ budget > 0
        /\ LET m == IF c.op \in CheckedOps THEN PredicateNameOf(c.op) ELSE c.op
           IN  th' = [th EXCEPT ![t] =
                         [IdleFrame EXCEPT !.call = c, !.method = m, !.pc = EntryPc(m)]]
        /\ budget' = budget - 1
        /\ UNCHANGED <<ds, mutex, lin, last, granted, written, heap, bufs>>

\* ds.mutex.Lock()
MutexLock(t) ==
    /\ th[t].pc = "lock"
    /\ MutexAvailable(mutex)
    /\ mutex' = TRUE
    /\ th' = [th EXCEPT ![t].pc = "b1", ![t].held = @ + 1]
    /\ UNCHANGED <<ds, lin, budget, last, granted, written, heap, bufs>>

\* ds.mutex.Unlock(): from here on the method's effect is what other threads
\* meet.
MutexUnlock(t) ==
    /\ th[t].pc = "unlock"
    /\ mutex' = FALSE
    /\ th' = [th EXCEPT ![t].pc = "ret", ![t].held = @ - 1]
    /\ lin' = EffectOn(lin, th[t].method, th[t].call)
    /\ UNCHANGED <<ds, budget, last, granted, written, heap, bufs>>

IsRootBody(t) ==
    /\ th[t].method = "IsRoot" /\ th[t].pc = "b1"
    /\ OwnStep(t, [th[t] EXCEPT !.q = IsRoot(ds, Subject(th[t].call)), !.pc = "unlock"], ds)

IsAdminBody(t) ==
    /\ th[t].method = "IsAdmin" /\ th[t].pc = "b1"
    /\ OwnStep(t, [th[t] EXCEPT !.q = IsAdmin(ds, Subject(th[t].call)), !.pc = "unlock"], ds)

IsNamespaceAdminBody(t) ==
    /\ th[t].method = "IsNamespaceAdmin" /\ th[t].pc = "b1"
    /\ LET c == th[t].call
       IN  OwnStep(t, [th[t] EXCEPT !.q = IsNamespaceAdmin(ds, Subject(c), c.ns),
                                    !.pc = "unlock"], ds)

CanGetBody(t) ==
    /\ th[t].method = "CanGet" /\ th[t].pc = "b1"
    /\ LET c == th[t].call
       IN  OwnStep(t, [th[t] EXCEPT !.q = CanGet(ds, Subject(c), c.ns, c.doc),
                                    !.pc = "unlock"], ds)

CanPutBody(t) ==
    /\ th[t].method = "CanPut" /\ th[t].pc = "b1"
    /\ LET c == th[t].call
       IN  OwnStep(t, [th[t] EXCEPT !.q = CanPut(ds, Subject(c), c.ns, c.doc),
                                    !.pc = "unlock"], ds)

CanAppendBody(t) ==
    /\ th[t].method = "CanAppend" /\ th[t].pc = "b1"
    /\ LET c == th[t].call
       IN  OwnStep(t, [th[t] EXCEPT !.q = CanAppend(ds, Subject(c), c.ns, c.doc),
                                    !.pc = "unlock"], ds)

GetBody(t) ==
    /\ th[t].method = "Get" /\ th[t].pc = "b1"
    /\ LET c == th[t].call
           r == Get(ds, c.ns, c.doc)
       IN  OwnStep(t, [Acted(th[t]) EXCEPT !.call.bytes = r.bytes, !.call.err = r.err], ds)

PutBody(t) ==
    /\ th[t].method = "Put" /\ th[t].pc = "b1"
    /\ LET c == th[t].call
       IN  OwnStep(t, Acted(th[t]), Put(ds, c.ns, c.doc, c.v).ds)

SetAdminBody(t) ==
    /\ th[t].method = "SetAdmin" /\ th[t].pc = "b1"
    /\ LET c == th[t].call
       IN  OwnStep(t, Acted(th[t]), SetAdmin(ds, c.token, c.is).ds)

\* Lines 187-197, then lines 199-203.
SetNamespaceAdminBody(t) ==
    /\ th[t].method = "SetNamespaceAdmin"
    /\ LET c == th[t].call
       IN  \/ /\ th[t].pc = "b1"
              /\ IF c.ns \notin DOMAIN ds.nsAdmins
                 THEN IF ~c.is
                      THEN OwnStep(t, [Acted(th[t]) EXCEPT !.pc = EarlyExit], ds)
                      ELSE OwnStep(t, [th[t] EXCEPT !.pc = "b2"],
                                   [ds EXCEPT !.nsAdmins = MapPut(ds.nsAdmins, c.ns, EmptyMap)])
                 ELSE OwnStep(t, [th[t] EXCEPT !.pc = "b2"], ds)
           \/ /\ th[t].pc = "b2"
              /\ OwnStep(t, Acted(th[t]), SetNsAdminEntry(ds, c.token, c.ns, c.is))

\* Lines 260-265, lines 267-272, then lines 274-298.
SetTokenBody(t) ==
    /\ th[t].method = "SetToken"
    /\ LET c == th[t].call
       IN  \/ /\ th[t].pc = "b1"
              /\ OwnStep(t, [th[t] EXCEPT !.pc = "b2"], EnsurePermsNs(ds, c.ns))
           \/ /\ th[t].pc = "b2"
              /\ OwnStep(t, [th[t] EXCEPT !.pc = "b3"], EnsurePermsDoc(ds, c.ns, c.doc))
           \/ /\ th[t].pc = "b3"
              /\ OwnStep(t, Acted(th[t]),
                         UpdatePerms(ds, c.token, c.ns, c.doc, c.get, c.put, c.app))

\* Lines 391-396, line 398, then line 399.
AppendBody(t) ==
    /\ th[t].method = "Append"
    /\ LET c == th[t].call
       IN  \/ /\ th[t].pc = "b1"
              /\ OwnStep(t, [th[t] EXCEPT !.pc = "b2"], EnsureStorageNs(ds, c.ns))
           \/ /\ th[t].pc = "b2"
              /\ OwnStep(t, [th[t] EXCEPT !.pc = "b3"], AppendBytes(ds, c.ns, c.doc, c.delim))
           \/ /\ th[t].pc = "b3"
              /\ OwnStep(t, Acted(th[t]), AppendBytes(ds, c.ns, c.doc, c.v))

\* A checked operation has its predicate's answer: it returns the error, returns
\* ErrAccessDenied, or calls the engine method it forwards to.
GateDecide(t) ==
    /\ th[t].pc = "ret"
    /\ th[t].call.op \in CheckedOps
    /\ th[t].method = PredicateNameOf(th[t].call.op)
    /\ LET f == th[t]
           a == AfterCheck(f.q)
           m == ForwardOf(f.call.op)
       IN  th' = [th EXCEPT ![t] =
                     CASE a = "error" -> [f EXCEPT !.pc = "idle", !.call.err = f.q.err]
                       [] a = "deny" -> [f EXCEPT !.pc = "idle", !.call.err = ErrAccessDenied]
                       [] a = "forward" -> [f EXCEPT !.method = m, !.pc = EntryPc(m)]]
    /\ UNCHANGED <<ds, mutex, lin, budget, last, granted, written, heap, bufs>>

\* An engine method called directly, or forwarded to, returns to the caller.
MethodReturn(t) ==
    /\ th[t].pc = "ret"
    /\ ~(th[t].call.op \in CheckedOps /\ th[t].method = PredicateNameOf(th[t].call.op))
    /\ th' = [th EXCEPT ![t].pc = "idle", ![t].call.ok = th[t].q.ok]
    /\ UNCHANGED <<ds, mutex, lin, budget, last, granted, written, heap, bufs>>

ThreadStep(t) ==
    \/ MutexLock(t)
    \/ MutexUnlock(t)
    \/ IsRootBody(t)
    \/ IsAdminBody(t)
    \/ IsNamespaceAdminBody(t)
    \/ CanGetBody(t)
    \/ CanPutBody(t)
    \/ CanAppendBody(t)
    \/ GetBody(t)
    \/ PutBody(t)
    \/ SetAdminBody(t)
    \/ SetNamespaceAdminBody(t)
    \/ SetTokenBody(t)
    \/ AppendBody(t)
    \/ GateDecide(t)
    \/ MethodReturn(t)

NextConc == \E t \in Threads : Invoke(t) \/ ThreadStep(t)

\* Two threads calling into one store, their steps interleaved.
SpecConc == InitConc /\ [][NextConc]_vars

\* Fairness: a thread that can take a step of its call is scheduled to take it.
\* Starting a call is the caller's choice and is under no fairness.
SpecConcFair ==
    InitFair /\ [][NextConc]_vars /\ \A t \in Threads : WF_vars(ThreadStep(t))

\* ------------------------------------------------------------------------
\* Properties under concurrency.

\* Thread t is between a Lock and the Unlock that follows it.
InCS(t) == th[t].pc \in {"b1", "b2", "b3", "unlock"}

\* C14: at most one thread is between Lock and Unlock; the mutex is locked
\* exactly while some thread is, so it is free when no operation is in progress;
\* a thread holds one Lock inside a critical section and none outside, at its
\* early returns too; and while a query is in its critical section the store is
\* the one that the operations unlocked so far leave, each applied whole, so the
\* answer of a Can* query reflects all three bits of a SetToken call or none.
C14_MutualExclusion ==
    /\ Cardinality({t \in Threads : InCS(t)}) <= 1
    /\ mutex <=> (\E t \in Threads : InCS(t))
    /\ \A t \in Threads : th[t].held = IF InCS(t) THEN 1 ELSE 0
    /\ \A t \in Threads :
         (th[t].method \in Queries /\ InCS(t)) => ds = lin
    /\ \A t \in Threads :
         (th[t].method \in Queries /\ th[t].pc = "unlock") =>
             th[t].q = QueryOn(lin, th[t].method, th[t].call)

\* A CanGet waits at Lock while a SetToken on the same record is about to
\* write it.
C14_Witness ==
    \E t \in Threads, u \in Threads :
        /\ th[t].method = "SetToken" /\ th[t].pc = "b3"
        /\ th[u].method = "CanGet" /\ th[u].pc = "lock"
        /\ th[u].call.ns = th[t].call.ns /\ th[u].call.doc = th[t].call.doc
        /\ Subject(th[u].call) = th[t].call.token

\* C15: whenever the mutex is free the documents are what the Put and Append
\* calls unlocked so far leave when applied one after the other in the order of
\* their unlocks; when two threads have each made one Append on the key, the
\* document is the initial value followed by both delimiter-value pairs, in one
\* order or the other, each pair contiguous; and what a Get read is the document
\* as whole calls left it, never ending in a delimiter still without its value.
C15_AppendsSerialized ==
    /\ ~mutex => ds.storage = lin.storage
    /\ \A t \in Threads, u \in Threads :
         LET initial == StoredBytes(ConcStore, "ns1", "doc1").bytes
             stored == StoredBytes(ds, "ns1", "doc1").bytes
             pairT == th[t].call.delim.bytes \o th[t].call.v.bytes
             pairU == th[u].call.delim.bytes \o th[u].call.v.bytes
         IN  ( /\ t # u
               /\ th[t].pc = "idle" /\ th[t].method = "Append"
               /\ th[u].pc = "idle" /\ th[u].method = "Append"
               /\ budget = MaxConcCalls - 2 ) =>
                 \/ stored = initial \o pairT \o pairU
                 \/ stored = initial \o pairU \o pairT
    /\ \A t \in Threads :
         (th[t].method = "Get" /\ th[t].pc \in {"unlock", "ret", "idle"}) =>
             LET b == th[t].call.bytes.bytes
             IN  /\ th[t].pc = "unlock" =>
                        th[t].call.bytes = Get(lin, th[t].call.ns, th[t].call.doc).bytes
                 /\ Len(b) > 0 => b[Len(b)] \notin {"|"}

\* An Append has stored its delimiter and not yet its value, and a Get on the
\* same key waits at Lock.
C15_Witness ==
    \E t \in Threads, u \in Threads :
        /\ th[t].method = "Append" /\ th[t].pc = "b3"
        /\ StoredBytes(ds, "ns1", "doc1").bytes =
               StoredBytes(ConcStore, "ns1", "doc1").bytes \o th[t].call.delim.bytes
        /\ Len(th[t].call.delim.bytes) > 0
        /\ th[u].method = "Get" /\ th[u].pc = "lock"
        /\ th[u].call.ns = th[t].call.ns /\ th[u].call.doc = th[t].call.doc

\* C16: a checked operation runs the method it forwards to only after its
\* predicate answered true with no error, and that answer is the predicate's
\* value on the store at the time the predicate's critical section ran. (That
\* the predicate still holds when the forwarded method runs is no invariant:
\* C16_Witness is a reachable state in which it did not.)
C16_AuthorizedWhenChecked ==
    \A t \in Threads :
        LET f == th[t]
        IN  f.call.op \in CheckedOps =>
              /\ f.method = ForwardOf(f.call.op) => (f.q.ok /\ f.q.err = NoErr)
              /\ (f.method = PredicateNameOf(f.call.op) /\ f.pc = "unlock") =>
                     (f.q = PredicateOf(ds, f.call) /\ f.q = PredicateOf(lin, f.call))
              /\ (f.pc = "idle" /\ f.method = PredicateNameOf(f.call.op)) =>
                     (~f.q.ok /\ f.call.err = ErrAccessDenied)

\* A CheckedPut found its token entitled, a SetToken then revoked the token's
\* rights and returned, and the CheckedPut wrote the document all the same.
C16_Witness ==
    \E t \in Threads, u \in Threads :
        /\ th[t].call.op = "CheckedPut" /\ th[t].method = "Put" /\ th[t].pc = "idle"
        /\ th[t].q.ok
        /\ ~th[t].authAtAct
        /\ th[u].call.op = "SetToken" /\ th[u].pc = "idle"
        /\ th[u].call.token = th[t].call.clientToken
        /\ ~CanPut(ds, th[t].call.clientToken, th[t].call.ns, th[t].call.doc).ok
        /\ StoredBytes(ds, th[t].call.ns, th[t].call.doc) = th[t].call.v

\* C17: a thread holds no Lock when it is at a Lock, when a method has returned
\* to its caller (so also while a checked operation runs between its two engine
\* calls) and when it is in no call; and under fair scheduling every call that
\* was started returns.
C17_DeadlockFree ==
    /\ [](\A t \in Threads : th[t].pc \in {"idle", "lock", "ret"} => th[t].held = 0)
    /\ \A t \in Threads : (th[t].pc # "idle") ~> (th[t].pc = "idle")

\* A checked operation waits at the Lock of the method it forwards to while
\* the other thread is inside a critical section.
C17_Witness ==
    \E t \in Threads, u \in Threads :
        /\ th[t].call.op \in CheckedOps
        /\ th[t].method = ForwardOf(th[t].call.op)
        /\ th[t].pc = "lock"
        /\ InCS(u)
        /\ mutex

\* ------------------------------------------------------------------------
\* The HTTP handlers of api.go. A request is a route with its path variables,
\* the X-API-TOKEN header and a body; the response is a status and a reply.

\* Requests handled in one behaviour of SpecApi.
MaxApiCalls == 5

StatusOK == 200

StatusBadRequest == 400

StatusForbidden == 403

StatusNotFound == 404

StatusInternalServerError == 500

\* getToken(r): the header's value, "" when the header is absent.
ApiClientTokens == {"", "R", "T"}

\* What e.StringGenerator.Generate() may return.
GeneratedTokens == {"G"}

\* The documents the requests name, one of them a log.
ApiKeys == {<<"ns1", "doc1">>, <<"ns1", "a.log">>}

\* filepath.Ext on the document names in use.
Ext(doc) == IF doc = "a.log" THEN ".log" ELSE ""

\* ApiState.Delimiters and ApiState.ContentTypes as the server sets them.
Delimiters == [e \in {".log"} |-> MkSlice(<<"\n">>)]

ContentTypes == [e \in {".log"} |-> "text/plain"]

\* A request body: whether reading it succeeds, whether it is JSON that fits
\* the request struct, the JSON object's members, and the bytes.
Body(read, valid, o, raw) == [read |-> read, valid |-> valid, obj |-> o, raw |-> MkSlice(raw)]

\* readRequest: nil when reading fails, the bytes otherwise.
readRequest(body) == IF body.read THEN body.raw ELSE NilSlice

\* json.Unmarshal into a zero-valued struct: a member of the object sets the
\* field of its name, and a field with no member keeps its zero value.
UnmarshalSetTokenRequest(o) ==
    [Token |-> MapGet(o, "Token", ""), Put |-> MapGet(o, "Put", FALSE),
     Get |-> MapGet(o, "Get", FALSE), Append |-> MapGet(o, "Append", FALSE)]

UnmarshalSetAdminRequest(o) ==
    [Token |-> MapGet(o, "Token", ""), Is |-> MapGet(o, "Is", FALSE)]

\* The bodies sent to /m/token/{ns}/{doc}: every combination of the three
\* flags with a token, the same without a token, and an object with no members.
SetTokenBodies ==
    {Body(FALSE, FALSE, EmptyMap, <<>>), Body(TRUE, FALSE, EmptyMap, <<"{">>),
     Body(TRUE, TRUE, EmptyMap, <<"{">>)}
    \cup {Body(TRUE, TRUE, [Token |-> "T", Put |-> p, Get |-> g, Append |-> a], <<"{">>) :
            p \in BOOLEAN, g \in BOOLEAN, a \in BOOLEAN}
    \cup {Body(TRUE, TRUE, [Put |-> TRUE, Get |-> g, Append |-> FALSE], <<"{">>) :
            g \in BOOLEAN}

\* The bodies sent to /m/admin and /m/admin/{ns}.
SetAdminBodies ==
    {Body(FALSE, FALSE, EmptyMap, <<>>), Body(TRUE, FALSE, EmptyMap, <<"{">>),
     Body(TRUE, TRUE, EmptyMap, <<"{">>), Body(TRUE, TRUE, [Is |-> TRUE], <<"{">>)}
    \cup {Body(TRUE, TRUE, [Token |-> "T", Is |-> is], <<"{">>) : is \in BOOLEAN}

\* The bodies sent to /r/{ns}/{doc}.
DocBodies ==
    {Body(FALSE, FALSE, EmptyMap, <<>>), Body(TRUE, FALSE, EmptyMap, <<>>),
     Body(TRUE, FALSE, EmptyMap, <<"a">>)}

\* checkErr: the response for an error of a checked operation, 0 for none.
checkErr(err) ==
    IF err = ErrAccessDenied THEN StatusForbidden
    ELSE IF err # NoErr THEN StatusInternalServerError
    ELSE 0

Response(d, status, reply) == [ds |-> d, status |-> status, reply |-> reply]

index(d) == Response(d, StatusOK, "jogdb api")

putDoc(d, clientToken, ns, doc, body) ==
    LET b == readRequest(body)
    IN  IF b.isNil THEN Response(d, StatusInternalServerError, "ErrReadingRequest")
        ELSE LET r == CheckedPut(d, clientToken, ns, doc, b)
             IN  IF checkErr(r.err) # 0 THEN Response(d, checkErr(r.err), r.err)
                 ELSE Response(r.ds, StatusOK, "OK")

appendDoc(d, clientToken, ns, doc, body) ==
    LET b == readRequest(body)
    IN  IF b.isNil THEN Response(d, StatusInternalServerError, "ErrReadingRequest")
        ELSE LET ext == Ext(doc)
                 found == MapGet(Delimiters, ext, NilSlice)
                 delim == IF found.isNil THEN MkSlice(<<>>) ELSE found
                 r == CheckedAppend(d, clientToken, ns, doc, delim, b)
             IN  IF checkErr(r.err) # 0 THEN Response(d, checkErr(r.err), r.err)
                 ELSE Response(r.ds, StatusOK, "OK")

getDoc(d, clientToken, ns, doc) ==
    LET r == CheckedGet(d, clientToken, ns, doc)
    IN  IF checkErr(r.err) # 0 THEN Response(d, checkErr(r.err), r.err)
        ELSE IF r.bytes.isNil THEN Response(d, StatusNotFound, "ErrNotFound")
        ELSE LET found == MapGet(ContentTypes, Ext(doc), "")
                 ct == IF found = "" THEN "application/octet-stream" ELSE found
             IN  Response(r.ds, StatusOK, [contentType |-> ct, bytes |-> r.bytes])

\* Line 183: CheckedSetToken(ds, clientToken, token, ns, doc, get, put, app) is
\* called with str.Put, str.Get, str.Append in that order.
setToken(d, clientToken, ns, doc, body, generated) ==
    IF readRequest(body).isNil
    THEN Response(d, StatusInternalServerError, "ErrReadingRequest")
    ELSE IF ~body.valid THEN Response(d, StatusBadRequest, "ErrJSON")
    ELSE LET parsed == UnmarshalSetTokenRequest(body.obj)
             str == IF parsed.Token = "" THEN [parsed EXCEPT !.Token = generated]
                    ELSE parsed
             r == CheckedSetToken(d, clientToken, str.Token, ns, doc,
                                  str.Put, str.Get, str.Append)
         IN  IF checkErr(r.err) # 0 THEN Response(d, checkErr(r.err), r.err)
             ELSE Response(r.ds, StatusOK, str)

setNamespaceAdmin(d, clientToken, ns, body, generated) ==
    IF readRequest(body).isNil
    THEN Response(d, StatusInternalServerError, "ErrReadingRequest")
    ELSE IF ~body.valid THEN Response(d, StatusBadRequest, "ErrJSON")
    ELSE LET parsed == UnmarshalSetAdminRequest(body.obj)
             snar == IF parsed.Token = "" THEN [parsed EXCEPT !.Token = generated]
                     ELSE parsed
             r == CheckedSetNamespaceAdmin(d, clientToken, snar.Token, ns, snar.Is)
         IN  IF checkErr(r.err) # 0 THEN Response(d, checkErr(r.err), r.err)
             ELSE Response(r.ds, StatusOK, snar)

setAdmin(d, clientToken, body, generated) ==
    IF readRequest(body).isNil
    THEN Response(d, StatusInternalServerError, "ErrReadingRequest")
    ELSE IF ~body.valid THEN Response(d, StatusBadRequest, "ErrJSON")
    ELSE LET parsed == UnmarshalSetAdminRequest(body.obj)
             sar == IF parsed.Token = "" THEN [parsed EXCEPT !.Token = generated]
                    ELSE parsed
             r == CheckedSetAdmin(d, clientToken, sar.Token, sar.Is)
         IN  IF checkErr(r.err) # 0 THEN Response(d, checkErr(r.err), r.err)
             ELSE Response(r.ds, StatusOK, sar)

\* One request served: the store as the handler leaves it, and in last the
\* route that was matched with the response that was written.
Serve(route, ns, doc, r) ==
    /\ budget > 0
    /\ budget' = budget - 1
    /\ ds' = r.ds
    /\ last' = [op |-> route, ns |-> ns, doc |-> doc, status |-> r.status,
                reply |-> r.reply]
    /\ UNCHANGED <<granted, written, heap, bufs, mutex, th, lin>>

InitApi == Fresh /\ budget = MaxApiCalls

IndexRequest == Serve("index", "-", "-", index(ds))

PutDocRequest ==
    \E clientToken \in ApiClientTokens, k \in ApiKeys, body \in DocBodies :
        Serve("putDoc", k[1], k[2], putDoc(ds, clientToken, k[1], k[2], body))

AppendDocRequest ==
    \E clientToken \in ApiClientTokens, k \in ApiKeys, body \in DocBodies :
        Serve("appendDoc", k[1], k[2], appendDoc(ds, clientToken, k[1], k[2], body))

GetDocRequest ==
    \E clientToken \in ApiClientTokens, k \in ApiKeys :
        Serve("getDoc", k[1], k[2], getDoc(ds, clientToken, k[1], k[2]))

SetTokenRequest ==
    \E clientToken \in ApiClientTokens, k \in ApiKeys, body \in SetTokenBodies,
       generated \in GeneratedTokens :
        Serve("setToken", k[1], k[2],
              setToken(ds, clientToken, k[1], k[2], body, generated))

SetNamespaceAdminRequest ==
    \E clientToken \in ApiClientTokens, ns \in Namespaces, body \in SetAdminBodies,
       generated \in GeneratedTokens :
        Serve("setNamespaceAdmin", ns, "-",
              setNamespaceAdmin(ds, clientToken, ns, body, generated))

SetAdminRequest ==
    \E clientToken \in ApiClientTokens, body \in SetAdminBodies,
       generated \in GeneratedTokens :
        Serve("setAdmin", "-", "-", setAdmin(ds, clientToken, body, generated))

\* NewAPI: the routes.
NextApi ==
    \/ IndexRequest
    \/ PutDocRequest
    \/ AppendDocRequest
    \/ GetDocRequest
    \/ SetTokenRequest
    \/ SetNamespaceAdminRequest
    \/ SetAdminRequest

\* Requests served one after the other against a new store.
SpecApi == InitApi /\ [][NextApi]_vars

\* C19 as stated: when the set-permission handler has answered a request on
\* (ns, doc) with success, the token of the reply has exactly the capabilities
\* flagged in the request: CanGet is the request's Get, CanPut its Put and
\* CanAppend its Append.
C19_HandlerGrantsFlags ==
    (last.op = "setToken" /\ last.status = StatusOK) =>
        /\ CanGet(ds, last.reply.Token, last.ns, last.doc).ok = last.reply.Get
        /\ CanPut(ds, last.reply.Token, last.ns, last.doc).ok = last.reply.Put
        /\ CanAppend(ds, last.reply.Token, last.ns, last.doc).ok = last.reply.Append

\* ------------------------------------------------------------------------
\* Frame conditions of the engine's mutations.

\* Engine calls made in one behaviour of SpecFrame.
MaxFrameCalls == 2

\* A store with every table populated: T is admin and namespace admin of both
\* namespaces, R is namespace admin of ns1, both hold permissions, and three
\* documents are stored.
FrameStore ==
    LET s1 == SetAdmin(NewMemDataStore("R"), "T", TRUE).ds
        s2 == SetNamespaceAdmin(s1, "T", "ns1", TRUE).ds
        s3 == SetNamespaceAdmin(s2, "T", "ns2", TRUE).ds
        s4 == SetNamespaceAdmin(s3, "R", "ns1", TRUE).ds
        s5 == SetToken(s4, "T", "ns1", "doc1", TRUE, TRUE, TRUE).ds
        s6 == SetToken(s5, "R", "ns1", "doc1", TRUE, FALSE, FALSE).ds
        s7 == SetToken(s6, "T", "ns2", "doc1", TRUE, FALSE, FALSE).ds
        s8 == Put(s7, "ns1", "doc1", MkSlice(<<"a">>)).ds
        s9 == Put(s8, "ns1", "doc2", MkSlice(<<"a">>)).ds
    IN  Put(s9, "ns2", "doc1", MkSlice(<<"a">>)).ds

\* The engine's calls start on a new store or on the populated one.
InitFrame ==
    /\ budget = MaxFrameCalls
    /\ last = NoCall
    /\ heap = <<>>
    /\ bufs = {}
    /\ mutex = FALSE
    /\ th = [t \in Threads |-> IdleFrame]
    /\ lin = NewMemDataStore("R")
    /\ \/ /\ ds = NewMemDataStore("R")
          /\ granted = {}
          /\ written = {}
       \/ /\ ds = FrameStore
          /\ granted = {<<"T", "ns1", "doc1">>, <<"R", "ns1", "doc1">>, <<"T", "ns2", "doc1">>}
          /\ written = {<<"ns1", "doc1">>, <<"ns1", "doc2">>, <<"ns2", "doc1">>}

SpecFrame == InitFrame /\ [][Next]_vars

\* C20: a Put or an Append leaves the permission and admin tables as they were
\* and every other document as it was; a SetToken leaves the documents and the
\* admin tables as they were and every other (token, namespace, document)
\* triple's capabilities as they were; a SetAdmin leaves documents, permissions
\* and namespace admins as they were and every other token's admin membership
\* as it was; a SetNamespaceAdmin leaves documents, permissions and admins as
\* they were and the membership of every other (token, namespace) pair as it
\* was; a query leaves the store as it was; and no call changes the root token.
C20_Frame ==
    [][ LET c == last'
            target == <<c.ns, c.doc>>
        IN  /\ ds'.rootToken = ds.rootToken
            /\ (Invoked(c, "Put") \/ Invoked(c, "Append")) =>
                 /\ ds'.perms = ds.perms
                 /\ ds'.admins = ds.admins
                 /\ ds'.nsAdmins = ds.nsAdmins
                 /\ \A k \in AllKeys :
                      k # target => StoredBytes(ds', k[1], k[2]) = StoredBytes(ds, k[1], k[2])
            /\ Invoked(c, "SetToken") =>
                 /\ ds'.storage = ds.storage
                 /\ ds'.admins = ds.admins
                 /\ ds'.nsAdmins = ds.nsAdmins
                 /\ \A t \in Tokens, k \in AllKeys :
                      (t # c.token \/ k # target) =>
                          StoredBits(ds', t, k[1], k[2]) = StoredBits(ds, t, k[1], k[2])
            /\ Invoked(c, "SetAdmin") =>
                 /\ ds'.storage = ds.storage
                 /\ ds'.perms = ds.perms
                 /\ ds'.nsAdmins = ds.nsAdmins
                 /\ \A t \in Tokens : t # c.token => InAdmins(ds', t) = InAdmins(ds, t)
            /\ Invoked(c, "SetNamespaceAdmin") =>
                 /\ ds'.storage = ds.storage
                 /\ ds'.perms = ds.perms
                 /\ ds'.admins = ds.admins
                 /\ \A t \in Tokens, ns \in Namespaces :
                      (t # c.token \/ ns # c.ns) =>
                          InNsAdmins(ds', t, ns) = InNsAdmins(ds, t, ns)
            /\ c.op \in Queries \cup {"Get"} => ds' = ds
      ]_vars

\* T, admin and namespace admin of both namespaces at the start, has been
\* removed as admin and then as namespace admin of ns1: it is still namespace
\* admin of ns2, the permission records of ns1 are all there, R is still
\* namespace admin of ns1 and the documents are as they were.
C20_Witness ==
    /\ last.op = "SetNamespaceAdmin" /\ last.token = "T" /\ last.ns = "ns1" /\ ~last.is
    /\ budget = MaxFrameCalls - 2
    /\ ~InAdmins(ds, "T")
    /\ ~InNsAdmins(ds, "T", "ns1")
    /\ InNsAdmins(ds, "T", "ns2")
    /\ InNsAdmins(ds, "R", "ns1")
    /\ ds.perms = FrameStore.perms
    /\ ds.storage = FrameStore.storage

====
